---- MODULE Spec2Model ----
(***************************************************************************)
(* A model of withsqlite.sqlite_db (src/withsqlite.py): a dict-like object *)
(* backed by one two-column table of an sqlite3 file, values held as JSON  *)
(* text.                                                                   *)
(*                                                                         *)
(* Texts (the val column, the output of jsonize, the input of json.loads)  *)
(* are sequences of one-character strings.  Python values are records of   *)
(* one shape, so that any two of them can be compared.                     *)
(***************************************************************************)
EXTENDS Integers, Sequences, FiniteSets, TLC

\* ------------------------------------------------------------------ bounds

\* Longest text value drawn as an input of the codec.
MaxStrLen == 2
\* Largest integer drawn as an input of the codec (two digits are reached).
MaxInt == 11

\* ------------------------------------------------------------- characters

QUOTE == "\""
BSLASH == "\\"
NL == "\n"

\* The characters a Python text value is made of in this model: two plain
\* letters, the quote, the backslash and the line feed.
StrChars == {"a", "n", QUOTE, BSLASH, NL}

\* ----------------------------------------------------------------- values

\* kind: "null" | "bool" | "num" | "str" | "list" | "dict" | "struct_time"
\* | "object" (an object is a value json cannot encode by itself, s is str()
\* of it; a struct_time is the value to_json tests for, s is time.asctime()
\* of it).
\* A dict holds its keys sorted in keys, and items[i] is the value of keys[i].
MkVal(kind, s, n, b, keys, items) ==
    [kind |-> kind, s |-> s, n |-> n, b |-> b, keys |-> keys, items |-> items]

VNull == MkVal("null", <<>>, 0, FALSE, <<>>, <<>>)
VStr(s) == MkVal("str", s, 0, FALSE, <<>>, <<>>)
VNum(n) == MkVal("num", <<>>, n, FALSE, <<>>, <<>>)
VBool(b) == MkVal("bool", <<>>, 0, b, <<>>, <<>>)
VList(items) == MkVal("list", <<>>, 0, FALSE, <<>>, items)
VDict(keys, items) == MkVal("dict", <<>>, 0, FALSE, keys, items)
VObject(s) == MkVal("object", s, 0, FALSE, <<>>, <<>>)
VTime(s) == MkVal("struct_time", s, 0, FALSE, <<>>, <<>>)

\* Python's ==: a bool is an int (True == 1, False == 0), containers compare
\* element by element, and values of different kinds are otherwise unequal.
RECURSIVE PyEq(_, _)
RECURSIVE PyEqSeq(_, _, _)
PyEqSeq(xs, ys, i) ==
    IF i > Len(xs) THEN TRUE
    ELSE PyEq(xs[i], ys[i]) /\ PyEqSeq(xs, ys, i + 1)

AsInt(x) == IF x.kind = "bool" THEN (IF x.b THEN 1 ELSE 0) ELSE x.n

PyEq(x, y) ==
    IF x.kind \in {"num", "bool"} /\ y.kind \in {"num", "bool"}
    THEN AsInt(x) = AsInt(y)
    ELSE IF x.kind # y.kind THEN FALSE
    ELSE IF x.kind = "null" THEN TRUE
    ELSE IF x.kind \in {"str", "object", "struct_time"} THEN x.s = y.s
    ELSE /\ Len(x.items) = Len(y.items)
         /\ x.keys = y.keys
         /\ PyEqSeq(x.items, y.items, 1)

\* ---------------------------------------------------------------- encoder

Digits == <<"0", "1", "2", "3", "4", "5", "6", "7", "8", "9">>

RECURSIVE IntText(_)
IntText(n) ==
    IF n < 0 THEN <<"-">> \o IntText(0 - n)
    ELSE IF n < 10 THEN <<Digits[n + 1]>>
    ELSE IntText(n \div 10) \o <<Digits[(n % 10) + 1]>>

RECURSIVE Spaces(_)
Spaces(n) == IF n = 0 THEN <<>> ELSE <<" ">> \o Spaces(n - 1)

\* json's own string encoder: quote, backslash and control characters are
\* escaped.
RECURSIVE EscapeStr(_)
EscapeStr(s) ==
    IF s = <<>> THEN <<>>
    ELSE LET c == Head(s) IN
         (IF c = QUOTE THEN <<BSLASH, QUOTE>>
          ELSE IF c = BSLASH THEN <<BSLASH, BSLASH>>
          ELSE IF c = NL THEN <<BSLASH, "n">>
          ELSE <<c>>) \o EscapeStr(Tail(s))

EncodeStr(s) == <<QUOTE>> \o EscapeStr(s) \o <<QUOTE>>

ClassKey == <<"_", "_", "c", "l", "a", "s", "s", "_", "_">>
ValueKey == <<"_", "_", "v", "a", "l", "u", "e", "_", "_">>
Basestring == <<"b", "a", "s", "e", "s", "t", "r", "i", "n", "g">>
TimeAsctime == <<"t", "i", "m", "e", ".", "a", "s", "c", "t", "i", "m", "e">>

\* A hook that gives the string form alone, untagged.
to_json_untagged(python_object) == VStr(python_object.s)

\* to_json: the default= hook json.dumps calls for a value it cannot encode;
\* it raises for none.  (json.dumps writes a struct_time, a tuple, as a list
\* and never hands one to the hook; no value set here holds one.)
to_json(python_object) ==
    IF python_object.kind = "struct_time"
    THEN VDict(<<ClassKey, ValueKey>>,
               <<VStr(TimeAsctime), VStr(python_object.s)>>)
    ELSE VDict(<<ClassKey, ValueKey>>,
               <<VStr(Basestring), VStr(python_object.s)>>)

Indent == 3

\* json.dumps(val, default=to_json, sort_keys=True, indent=3)
RECURSIVE Dumps(_, _)
RECURSIVE DumpItems(_, _, _)
RECURSIVE DumpPairs(_, _, _, _)
DumpItems(items, i, lvl) ==
    <<NL>> \o Spaces(Indent * lvl) \o Dumps(items[i], lvl)
    \o (IF i < Len(items) THEN <<",">> \o DumpItems(items, i + 1, lvl)
        ELSE <<>>)

DumpPairs(keys, items, i, lvl) ==
    <<NL>> \o Spaces(Indent * lvl) \o EncodeStr(keys[i]) \o <<":", " ">>
    \o Dumps(items[i], lvl)
    \o (IF i < Len(items) THEN <<",">> \o DumpPairs(keys, items, i + 1, lvl)
        ELSE <<>>)

Dumps(v, lvl) ==
    CASE v.kind = "null" -> <<"n", "u", "l", "l">>
      [] v.kind = "bool" -> IF v.b THEN <<"t", "r", "u", "e">>
                            ELSE <<"f", "a", "l", "s", "e">>
      [] v.kind = "num" -> IntText(v.n)
      [] v.kind = "str" -> EncodeStr(v.s)
      [] v.kind = "list" ->
           IF v.items = <<>> THEN <<"[", "]">>
           ELSE <<"[">> \o DumpItems(v.items, 1, lvl + 1)
                \o <<NL>> \o Spaces(Indent * lvl) \o <<"]">>
      [] v.kind = "dict" ->
           IF v.items = <<>> THEN <<"{", "}">>
           ELSE <<"{">> \o DumpPairs(v.keys, v.items, 1, lvl + 1)
                \o <<NL>> \o Spaces(Indent * lvl) \o <<"}">>
      [] OTHER -> Dumps(to_json(v), lvl)

\* sqlite_db.jsonize: a text value is wrapped in quotes as it is, anything
\* else goes through json.dumps.
jsonize(val) ==
    IF val.kind = "str" THEN <<QUOTE>> \o val.s \o <<QUOTE>>
    ELSE Dumps(val, 0)

\* ---------------------------------------------------------------- decoder

\* The result of a parse step: ok, the value, and the position after it.
PRes(ok, val, pos) == [ok |-> ok, val |-> val, pos |-> pos]
PFail == PRes(FALSE, VNull, 0)

IsWs(c) == c \in {" ", NL}
IsDigit(c) == c \in {"0", "1", "2", "3", "4", "5", "6", "7", "8", "9"}
DigitVal(c) == CHOOSE d \in 0..9 : Digits[d + 1] = c

RECURSIVE SkipWs(_, _)
SkipWs(t, p) ==
    IF p <= Len(t) /\ IsWs(t[p]) THEN SkipWs(t, p + 1) ELSE p

\* The string scanner, called with p after the opening quote: ends at the
\* first quote that is not escaped; a raw control character, an unknown
\* escape or the end of the text is an error.
RECURSIVE ScanStr(_, _, _)
ScanStr(t, p, acc) ==
    IF p > Len(t) THEN PFail
    ELSE IF t[p] = QUOTE THEN PRes(TRUE, VStr(acc), p + 1)
    ELSE IF t[p] = NL THEN PFail
    ELSE IF t[p] = BSLASH THEN
        IF p + 1 > Len(t) THEN PFail
        ELSE IF t[p + 1] = QUOTE THEN ScanStr(t, p + 2, Append(acc, QUOTE))
        ELSE IF t[p + 1] = BSLASH THEN ScanStr(t, p + 2, Append(acc, BSLASH))
        ELSE IF t[p + 1] = "n" THEN ScanStr(t, p + 2, Append(acc, NL))
        ELSE PFail
    ELSE ScanStr(t, p + 1, Append(acc, t[p]))

RECURSIVE ScanDigits(_, _, _)
ScanDigits(t, p, acc) ==
    IF p <= Len(t) /\ IsDigit(t[p])
    THEN ScanDigits(t, p + 1, 10 * acc + DigitVal(t[p]))
    ELSE PRes(TRUE, VNum(acc), p)

\* An integer: -?(0|[1-9][0-9]*)
ScanInt(t, p) ==
    IF p > Len(t) \/ ~IsDigit(t[p]) THEN PFail
    ELSE IF t[p] = "0" THEN PRes(TRUE, VNum(0), p + 1)
    ELSE ScanDigits(t, p, 0)

ScanNumber(t, p) ==
    IF t[p] = "-"
    THEN LET r == ScanInt(t, p + 1) IN
         IF r.ok THEN PRes(TRUE, VNum(0 - r.val.n), r.pos) ELSE PFail
    ELSE ScanInt(t, p)

Matches(t, p, w) ==
    /\ p + Len(w) - 1 <= Len(t)
    /\ \A i \in 1..Len(w) : t[p + i - 1] = w[i]

RECURSIVE ScanValue(_, _)
RECURSIVE ScanArray(_, _, _)
RECURSIVE ScanObject(_, _, _, _)

\* Called with p after "[" or after a ",": a value, then "," or "]".
ScanArray(t, p, acc) ==
    LET r == ScanValue(t, SkipWs(t, p)) IN
    IF ~r.ok THEN PFail
    ELSE LET q == SkipWs(t, r.pos) IN
         IF q > Len(t) THEN PFail
         ELSE IF t[q] = "]" THEN PRes(TRUE, VList(Append(acc, r.val)), q + 1)
         ELSE IF t[q] = "," THEN ScanArray(t, q + 1, Append(acc, r.val))
         ELSE PFail

\* Called with p after "{" or after a ",": "key": value, then "," or "}".
ScanObject(t, p, ks, acc) ==
    LET p1 == SkipWs(t, p) IN
    IF p1 > Len(t) \/ t[p1] # QUOTE THEN PFail
    ELSE LET k == ScanStr(t, p1 + 1, <<>>) IN
         IF ~k.ok THEN PFail
         ELSE LET p2 == SkipWs(t, k.pos) IN
              IF p2 > Len(t) \/ t[p2] # ":" THEN PFail
              ELSE LET r == ScanValue(t, SkipWs(t, p2 + 1)) IN
                   IF ~r.ok THEN PFail
                   ELSE LET q == SkipWs(t, r.pos) IN
                        IF q > Len(t) THEN PFail
                        ELSE IF t[q] = "}"
                        THEN PRes(TRUE, VDict(Append(ks, k.val.s),
                                              Append(acc, r.val)), q + 1)
                        ELSE IF t[q] = ","
                        THEN ScanObject(t, q + 1, Append(ks, k.val.s),
                                        Append(acc, r.val))
                        ELSE PFail

ScanValue(t, p) ==
    IF p > Len(t) THEN PFail
    ELSE IF t[p] = QUOTE THEN ScanStr(t, p + 1, <<>>)
    ELSE IF t[p] = "[" THEN
        LET q == SkipWs(t, p + 1) IN
        IF q <= Len(t) /\ t[q] = "]" THEN PRes(TRUE, VList(<<>>), q + 1)
        ELSE ScanArray(t, p + 1, <<>>)
    ELSE IF t[p] = "{" THEN
        LET q == SkipWs(t, p + 1) IN
        IF q <= Len(t) /\ t[q] = "}" THEN PRes(TRUE, VDict(<<>>, <<>>), q + 1)
        ELSE ScanObject(t, p + 1, <<>>, <<>>)
    ELSE IF Matches(t, p, <<"n", "u", "l", "l">>) THEN PRes(TRUE, VNull, p + 4)
    ELSE IF Matches(t, p, <<"t", "r", "u", "e">>)
    THEN PRes(TRUE, VBool(TRUE), p + 4)
    ELSE IF Matches(t, p, <<"f", "a", "l", "s", "e">>)
    THEN PRes(TRUE, VBool(FALSE), p + 5)
    ELSE ScanNumber(t, p)

\* json.loads: one value, white space around it, nothing after it.
\* ok = FALSE is the ValueError json.loads raises.
json_loads(t) ==
    LET r == ScanValue(t, SkipWs(t, 1)) IN
    IF r.ok /\ SkipWs(t, r.pos) = Len(t) + 1
    THEN [ok |-> TRUE, val |-> r.val]
    ELSE [ok |-> FALSE, val |-> VNull]

\* ------------------------------------------------------------------ state

\* The store objects of the run, the table names they may be configured
\* with, and the keys and values the mapping operations are called with.
Handles == {"h1", "h2"}
Tables == {"store", "fruit"}
Keys == {"a", "b"}
\* The keys in the order of the key column's collation.
KeyOrder == <<"a", "b">>
\* get(k, x=None): the default of x, and the values x is given.
GetDefault == VNull
Defaults == {GetDefault, VNum(5)}
NoHandle == "none"

\* The values set through two store objects (Spec), and through one store
\* object alone (SpecOne): a text, a text holding a quote, a number and a
\* boolean equal to it in Python.
Values == {VStr(<<"a">>), VNum(1)}
OneValues == {VStr(<<"a">>), VStr(<<QUOTE>>), VNum(1), VBool(TRUE)}
\* The values of SpecObject: objects json cannot encode by itself (str() of
\* one holds a quote) and a number.
ObjectValues == {VObject(<<"a">>), VObject(<<QUOTE>>), VNum(1)}

\* The constructor arguments (autocommit, table) of the store objects: two
\* buffered stores on one table, an autocommit store beside a buffered one,
\* two autocommit stores, and two stores configured with different tables.
Configs ==
    {<<[h \in Handles |-> FALSE], [h \in Handles |-> "store"]>>,
     <<[h \in Handles |-> h = "h1"], [h \in Handles |-> "store"]>>,
     <<[h \in Handles |-> TRUE], [h \in Handles |-> "store"]>>,
     <<[h \in Handles |-> TRUE],
       [h \in Handles |-> IF h = "h1" THEN "store" ELSE "fruit"]>>}

VARIABLES
    autocommit,  \* self.autocommit of each store object
    table,       \* self.table of each store object
    conn,        \* self.conn: "None" | "open"
    crsr,        \* self.crsr: "None" | "open" | "closed"
    fileExists,  \* os.path.exists(self.fname)
    tables,      \* the tables of the file
    rows,        \* the committed rows of each table, in rowid order
    writer,      \* the store object whose connection holds an open write
                 \* transaction (the file's write lock), or NoHandle
    pending,     \* the rows of the writer's table as its transaction sees them
    liveC,       \* history: per table, the keys set and not since deleted or
                 \* cleared, as committed
    liveP,       \* history: the same, as the writer's transaction has them
    last,        \* the last call made and how it ended
    codec,       \* the codec's input, text and output (SpecCodec)
    setting      \* per store object, the __setitem__ in progress between its
                 \* __getitem__ and its statement (SpecRace)

vars == <<autocommit, table, conn, crsr, fileExists, tables, rows, writer,
          pending, liveC, liveP, last, codec, setting>>

Row(k, t) == [key |-> k, val |-> t]

\* A call: the method, the store object, the key, the value given (a write)
\* or returned (a read), the default given, how it ended ("ok" or the error
\* raised); pend: the store object held uncommitted writes when called; hit:
\* the key had a row in what the store object could read when called.
NoCall == [op |-> "init", h |-> NoHandle, k |-> "", v |-> VNull, d |-> VNull,
           res |-> "ok", pend |-> FALSE, hit |-> FALSE]

CodecOff == [pc |-> "off", val |-> VNull, text |-> <<>>,
             out |-> [ok |-> FALSE, val |-> VNull]]

\* No __setitem__ in progress; otherwise its key, its value and the statement
\* it has chosen ("insert" after KeyError, "update" after a different value).
NoSet == [k |-> "", v |-> VNull, stmt |-> "none"]

\* sqlite_db.__init__ for every store object; no file yet.
Constructed ==
    /\ conn = [h \in Handles |-> "None"]
    /\ crsr = [h \in Handles |-> "None"]
    /\ fileExists = FALSE
    /\ tables = {}
    /\ rows = [t \in Tables |-> <<>>]
    /\ writer = NoHandle
    /\ pending = <<>>
    /\ liveC = [t \in Tables |-> {}]
    /\ liveP = {}
    /\ last = NoCall
    /\ setting = [h \in Handles |-> NoSet]

Init ==
    /\ \E c \in Configs : autocommit = c[1] /\ table = c[2]
    /\ Constructed
    /\ codec = CodecOff

\* One store object used alone, buffered or autocommit.
InitOne ==
    /\ \E b \in BOOLEAN : autocommit = [h \in Handles |-> b]
    /\ table = [h \in Handles |-> "store"]
    /\ Constructed
    /\ codec = CodecOff

\* Two autocommit store objects on the table "store".
InitRace ==
    /\ autocommit = [h \in Handles |-> TRUE]
    /\ table = [h \in Handles |-> "store"]
    /\ Constructed
    /\ codec = CodecOff

\* ----------------------------------------------------------------- engine

\* sqlite3 as the store uses it.  A connection opened with the default
\* isolation level begins a transaction before its first insert, update or
\* delete (one that matches no row included) and holds the file's write lock
\* until it commits; a second connection's writing statement is refused
\* meanwhile, and its selects read the committed rows.  A select opens no
\* transaction.  Not modelled: the read lock a connection keeps after a
\* refused write, which makes another connection's commit fail; here a commit
\* of an open connection always goes through.

\* What a statement on self.crsr does before it touches a row: None has no
\* execute (AttributeError), a closed cursor refuses (ProgrammingError), a
\* table the file does not have is "no such table" (OperationalError).
CursorErr(h) ==
    IF crsr[h] = "None" THEN "AttributeError"
    ELSE IF crsr[h] = "closed" THEN "ProgrammingError"
    ELSE IF table[h] \notin tables THEN "OperationalError"
    ELSE "ok"

\* A writing statement needs the file's write lock: "database is locked"
\* (OperationalError) while another connection's transaction holds it.
WriteErr(h) ==
    IF writer \notin {NoHandle, h} THEN "OperationalError" ELSE "ok"

\* The rows a statement of h reads: its own transaction's, or the committed.
ReadRows(h) == IF writer = h THEN pending ELSE rows[table[h]]

HasKey(rs, k) == \E i \in 1..Len(rs) : rs[i].key = k
\* select val from T where key=? ; fetchone()
FirstOf(rs, k) == rs[CHOOSE i \in 1..Len(rs) :
                        rs[i].key = k /\ \A j \in 1..(i - 1) : rs[j].key # k]
\* select COUNT(*) from T where key=?
CountKey(rs, k) == Cardinality({i \in 1..Len(rs) : rs[i].key = k})
\* The update as a statement that adds a row instead of changing one.
SqlUpdate_append(rs, k, t) == Append(rs, [key |-> k, val |-> t])
\* The update as a statement that replaces the row by a new one.
SqlUpdate_replace(rs, k, t) ==
    Append(SelectSeq(rs, LAMBDA r : r.key # k), [key |-> k, val |-> t])
\* update or fail T set val=? where key==?
SqlUpdate(rs, k, t) ==
    [i \in 1..Len(rs) |-> IF rs[i].key = k THEN Row(k, t) ELSE rs[i]]
\* insert into T values (?, ?)
SqlInsert(rs, k, t) == Append(rs, Row(k, t))
\* A key column without its unique constraint.
KeyConflict_none(rs, k) == FALSE
\* key text unique: an insert of a key the table holds is refused.
KeyConflict(rs, k) == HasKey(rs, k)
\* The delete without its where clause.
SqlDelete_all(rs, k) == <<>>
\* delete from T where key=?
SqlDelete(rs, k) == SelectSeq(rs, LAMBDA r : r.key # k)

\* A writing statement committed at once whatever the isolation level.
Write_through(h, new) ==
    /\ rows' = [rows EXCEPT ![table[h]] = new]
    /\ UNCHANGED <<writer, pending>>

\* A writing statement that opens a transaction whatever the isolation level.
Write_buffered(h, new) ==
    /\ writer' = h
    /\ pending' = new
    /\ UNCHANGED rows

\* The effect of a writing statement of h that leaves its table with rows
\* new: with isolation_level=None it is committed at once, otherwise it opens
\* (or continues) the connection's transaction.
Write(h, new) ==
    IF autocommit[h]
    THEN /\ rows' = [rows EXCEPT ![table[h]] = new]
         /\ UNCHANGED <<writer, pending>>
    ELSE /\ writer' = h
         /\ pending' = new
         /\ UNCHANGED rows

NoWrite == UNCHANGED <<rows, writer, pending>>

Call(op, h, k, v, d, res) ==
    [op |-> op, h |-> h, k |-> k, v |-> v, d |-> d, res |-> res,
     pend |-> (writer = h),
     hit |-> (k \in Keys /\ CursorErr(h) = "ok" /\ HasKey(ReadRows(h), k))]

\* The history of live keys follows the writes and the commits.
LiveOf(h) == IF writer = h THEN liveP ELSE liveC[table[h]]
LiveWrite(h, keys) ==
    IF autocommit[h]
    THEN liveC' = [liveC EXCEPT ![table[h]] = keys] /\ UNCHANGED liveP
    ELSE liveP' = keys /\ UNCHANGED liveC
LiveCommit(h) ==
    IF writer = h
    THEN liveC' = [liveC EXCEPT ![table[h]] = liveP] /\ liveP' = {}
    ELSE UNCHANGED <<liveC, liveP>>
NoLive == UNCHANGED <<liveC, liveP>>

\* A commit that leaves the transaction open.
commit_lost(h) == UNCHANGED <<rows, writer, pending>>

\* self.conn.commit()
commit(h) ==
    IF writer = h
    THEN /\ rows' = [rows EXCEPT ![table[h]] = pending]
         /\ writer' = NoHandle
         /\ pending' = <<>>
    ELSE NoWrite

\* -------------------------------------------------------------- lifecycle

\* make_db: create table if not exists, committed at once.
make_db(h) == tables \cup {table[h]}

\* _connect: a connection and a cursor are made only where there is none.
connect_conn(h) == IF conn[h] = "None" THEN "open" ELSE conn[h]
connect_crsr(h) == IF crsr[h] = "None" THEN "open" ELSE crsr[h]

\* An entry that connects anew each time: the connection it replaces is
\* dropped with its transaction, which is rolled back.
Enter_fresh(h) ==
    /\ fileExists' = TRUE
    /\ tables' = IF ~fileExists THEN make_db(h) ELSE tables
    /\ conn' = [conn EXCEPT ![h] = "open"]
    /\ crsr' = [crsr EXCEPT ![h] = "open"]
    /\ writer' = IF writer = h THEN NoHandle ELSE writer
    /\ pending' = IF writer = h THEN <<>> ELSE pending
    /\ liveP' = IF writer = h THEN {} ELSE liveP
    /\ last' = Call("enter", h, "", VNull, VNull, "ok")
    /\ UNCHANGED <<autocommit, table, rows, liveC, codec, setting>>

\* __enter__
Enter(h) ==
    /\ fileExists' = TRUE
    /\ tables' = IF ~fileExists THEN make_db(h) ELSE tables
    /\ conn' = [conn EXCEPT ![h] = connect_conn(h)]
    /\ crsr' = [crsr EXCEPT ![h] = connect_crsr(h)]
    /\ last' = Call("enter", h, "", VNull, VNull, "ok")
    /\ NoLive
    /\ UNCHANGED <<autocommit, table, rows, writer, pending, codec, setting>>

\* What __exit__ returns: None, so an exception of the block is raised again.
ExitReturn == FALSE

\* An exit that rolls the transaction back when the block raised.
Exit_rollback(h, exc) ==
    /\ conn[h] = "open"
    /\ IF exc
       THEN /\ rows' = rows
            /\ writer' = IF writer = h THEN NoHandle ELSE writer
            /\ pending' = IF writer = h THEN <<>> ELSE pending
            /\ liveP' = IF writer = h THEN {} ELSE liveP
            /\ liveC' = liveC
       ELSE commit(h) /\ LiveCommit(h)
    /\ crsr' = [crsr EXCEPT ![h] = "closed"]
    /\ last' = Call(IF exc THEN "exit_exc" ELSE "exit", h, "", VNull, VNull,
                    IF exc THEN "reraised" ELSE "ok")
    /\ UNCHANGED <<autocommit, table, conn, fileExists, tables, codec,
                   setting>>

\* __exit__(type, value, traceback); exc: the block ended by an exception.
Exit(h, exc) ==
    /\ IF conn[h] = "None"
       THEN /\ NoWrite
            /\ NoLive
            /\ UNCHANGED crsr
            /\ last' = Call(IF exc THEN "exit_exc" ELSE "exit", h, "", VNull,
                            VNull, "AttributeError")
       ELSE /\ commit(h)
            /\ LiveCommit(h)
            /\ crsr' = [crsr EXCEPT ![h] = "closed"]
            /\ last' = Call(IF exc THEN "exit_exc" ELSE "exit", h, "", VNull,
                            VNull,
                            IF exc /\ ~ExitReturn THEN "reraised" ELSE "ok")
    /\ UNCHANGED <<autocommit, table, conn, fileExists, tables, codec,
                   setting>>

\* commit
Commit(h) ==
    /\ IF conn[h] = "None"
       THEN /\ NoWrite
            /\ NoLive
            /\ last' = Call("commit", h, "", VNull, VNull, "AttributeError")
       ELSE /\ commit(h)
            /\ LiveCommit(h)
            /\ last' = Call("commit", h, "", VNull, VNull, "ok")
    /\ UNCHANGED <<autocommit, table, conn, crsr, fileExists, tables, codec,
                   setting>>

\* ------------------------------------------------------------------ reads

\* __getitem__: the value, or the error it raises (KeyError for no row,
\* ValueError for a text json.loads refuses).
getitem(h, k) ==
    IF CursorErr(h) # "ok" THEN [res |-> CursorErr(h), val |-> VNull]
    ELSE IF ~HasKey(ReadRows(h), k) THEN [res |-> "KeyError", val |-> VNull]
    ELSE LET d == json_loads(FirstOf(ReadRows(h), k).val) IN
         IF d.ok THEN [res |-> "ok", val |-> d.val]
         ELSE [res |-> "ValueError", val |-> VNull]

\* A get that lets KeyError through.
get_raising(h, k, x) == getitem(h, k)

\* get(k, x): __getitem__, with KeyError turned into x.
get(h, k, x) ==
    LET g == getitem(h, k) IN
    IF g.res = "KeyError" THEN [res |-> "ok", val |-> x] ELSE g

\* __contains__
contains(h, k) ==
    IF CursorErr(h) # "ok" THEN [res |-> CursorErr(h), val |-> VNull]
    ELSE [res |-> "ok", val |-> VBool(CountKey(ReadRows(h), k) # 0)]

\* __len__
len(h) ==
    IF CursorErr(h) # "ok" THEN [res |-> CursorErr(h), val |-> VNull]
    ELSE [res |-> "ok", val |-> VNum(Len(ReadRows(h)))]

\* A select without order by returns the rows in an order SQL leaves to the
\* engine.  sqlite walks the table in rowid order when the statement needs
\* the val column; a statement that needs the key column alone it may answer
\* from the index of "key text unique", in the order of the keys.
ScanPlans == {"table", "index"}

\* The keys of rs as the index holds them.
IndexScan(rs) == SelectSeq(KeyOrder, LAMBDA k : HasKey(rs, k))

\* keys: select key from T, as a list of texts.
keys(h, plan) ==
    IF CursorErr(h) # "ok" THEN [res |-> CursorErr(h), val |-> VNull]
    ELSE LET rs == ReadRows(h)
             ks == IF plan = "index" THEN IndexScan(rs)
                   ELSE [i \in 1..Len(rs) |-> rs[i].key]
         IN [res |-> "ok",
             val |-> VList([i \in 1..Len(ks) |-> VStr(<<ks[i]>>)])]

\* values: select val from T, each text through json.loads (ValueError for
\* a text it refuses).
values(h) ==
    IF CursorErr(h) # "ok" THEN [res |-> CursorErr(h), val |-> VNull]
    ELSE LET rs == ReadRows(h)
             ds == [i \in 1..Len(rs) |-> json_loads(rs[i].val)]
         IN IF \E i \in 1..Len(rs) : ~ds[i].ok
            THEN [res |-> "ValueError", val |-> VNull]
            ELSE [res |-> "ok", val |-> VList([i \in 1..Len(rs) |-> ds[i].val])]

\* items: select * from T, as a list of (key, value) pairs.
items(h) ==
    IF CursorErr(h) # "ok" THEN [res |-> CursorErr(h), val |-> VNull]
    ELSE LET rs == ReadRows(h)
             ds == [i \in 1..Len(rs) |-> json_loads(rs[i].val)]
         IN IF \E i \in 1..Len(rs) : ~ds[i].ok
            THEN [res |-> "ValueError", val |-> VNull]
            ELSE [res |-> "ok",
                  val |-> VList([i \in 1..Len(rs) |->
                                   VList(<<VStr(<<rs[i].key>>), ds[i].val>>)])]

ReadOnly == UNCHANGED <<autocommit, table, conn, crsr, fileExists, tables,
                        rows, writer, pending, liveC, liveP, codec, setting>>

Getitem(h, k) ==
    /\ last' = Call("getitem", h, k, getitem(h, k).val, VNull,
                    getitem(h, k).res)
    /\ ReadOnly

Get(h, k, x) ==
    /\ last' = Call("get", h, k, get(h, k, x).val, x, get(h, k, x).res)
    /\ ReadOnly

Contains(h, k) ==
    /\ last' = Call("contains", h, k, contains(h, k).val, VNull,
                    contains(h, k).res)
    /\ ReadOnly

Length(h) ==
    /\ last' = Call("len", h, "", len(h).val, VNull, len(h).res)
    /\ ReadOnly

ListKeys(h, plan) ==
    /\ last' = Call("keys", h, "", keys(h, plan).val, VNull, keys(h, plan).res)
    /\ ReadOnly

ListValues(h) ==
    /\ last' = Call("values", h, "", values(h).val, VNull, values(h).res)
    /\ ReadOnly

ListItems(h) ==
    /\ last' = Call("items", h, "", items(h).val, VNull, items(h).res)
    /\ ReadOnly

\* ----------------------------------------------------------------- writes

\* The outcome of a writing call: how it ended, whether a writing statement
\* ran, and the rows it left.
WRes(res, wrote, new) == [res |-> res, wrote |-> wrote, rows |-> new]

\* The statement a writing call ends with.
Execute(h, new) ==
    IF WriteErr(h) # "ok" THEN WRes(WriteErr(h), FALSE, <<>>)
    ELSE WRes("ok", TRUE, new)

\* A __setitem__ without the comparison: a key with a row is always updated.
setitem_rewrite(h, k, val) ==
    LET g == getitem(h, k) IN
    IF g.res = "KeyError"
    THEN Execute(h, SqlInsert(ReadRows(h), k, jsonize(val)))
    ELSE IF g.res # "ok" THEN WRes(g.res, FALSE, <<>>)
    ELSE Execute(h, SqlUpdate(ReadRows(h), k, jsonize(val)))

\* __setitem__: nothing when the stored value equals val, an update when the
\* key has a row, an insert when __getitem__ raised KeyError; any other
\* error of __getitem__ leaves the call.
setitem(h, k, val) ==
    LET g == getitem(h, k) IN
    IF g.res = "KeyError"
    THEN IF WriteErr(h) = "ok" /\ KeyConflict(ReadRows(h), k)
         THEN WRes("IntegrityError", FALSE, <<>>)
         ELSE Execute(h, SqlInsert(ReadRows(h), k, jsonize(val)))
    ELSE IF g.res # "ok" THEN WRes(g.res, FALSE, <<>>)
    ELSE IF PyEq(val, g.val) THEN WRes("ok", FALSE, <<>>)
    ELSE Execute(h, SqlUpdate(ReadRows(h), k, jsonize(val)))

\* The statement __setitem__ ends with, run on the rows as they are by then:
\* the insert of a key that has meanwhile got a row breaks "key text unique"
\* (IntegrityError), the update of a key that has lost its row changes none.
setstmt(h, k, val, stmt) ==
    IF CursorErr(h) # "ok" THEN WRes(CursorErr(h), FALSE, <<>>)
    ELSE IF stmt = "insert"
    THEN IF WriteErr(h) = "ok" /\ KeyConflict(ReadRows(h), k)
         THEN WRes("IntegrityError", FALSE, <<>>)
         ELSE Execute(h, SqlInsert(ReadRows(h), k, jsonize(val)))
    ELSE Execute(h, SqlUpdate(ReadRows(h), k, jsonize(val)))

\* __delitem__
delitem(h, k) ==
    IF CursorErr(h) # "ok" THEN WRes(CursorErr(h), FALSE, <<>>)
    ELSE Execute(h, SqlDelete(ReadRows(h), k))

\* clear
clear(h) ==
    IF CursorErr(h) # "ok" THEN WRes(CursorErr(h), FALSE, <<>>)
    ELSE Execute(h, <<>>)

Apply(h, o) == IF o.wrote THEN Write(h, o.rows) ELSE NoWrite
\* The history after a writing call whose statement ran and leaves the keys
\* of live live (a set that found the value already stored runs none).
Record(h, o, live) == IF o.wrote THEN LiveWrite(h, live) ELSE NoLive

Setitem(h, k, val) ==
    /\ Apply(h, setitem(h, k, val))
    /\ Record(h, setitem(h, k, val), LiveOf(h) \cup {k})
    /\ last' = Call("set", h, k, val, VNull, setitem(h, k, val).res)
    /\ UNCHANGED <<autocommit, table, conn, crsr, fileExists, tables, codec,
                   setting>>

\* __setitem__ up to the choice of its statement: val == self.__getitem__(key)
\* and the except KeyError.  The call is over when the values are equal or
\* __getitem__ raised another error.
SetCheck(h, k, val) ==
    /\ setting[h] = NoSet
    /\ LET g == getitem(h, k) IN
       IF g.res = "KeyError"
       THEN /\ setting' = [setting EXCEPT
                             ![h] = [k |-> k, v |-> val, stmt |-> "insert"]]
            /\ last' = Call("set_check", h, k, val, VNull, "ok")
       ELSE IF g.res = "ok" /\ ~PyEq(val, g.val)
       THEN /\ setting' = [setting EXCEPT
                             ![h] = [k |-> k, v |-> val, stmt |-> "update"]]
            /\ last' = Call("set_check", h, k, val, VNull, "ok")
       ELSE /\ UNCHANGED setting
            /\ last' = Call("set", h, k, val, VNull, g.res)
    /\ NoWrite
    /\ NoLive
    /\ UNCHANGED <<autocommit, table, conn, crsr, fileExists, tables, codec>>

\* __setitem__ from its statement on.
SetWrite(h) ==
    /\ setting[h] # NoSet
    /\ LET s == setting[h]
           o == setstmt(h, s.k, s.v, s.stmt)
       IN /\ Apply(h, o)
          /\ Record(h, o, IF s.stmt = "insert" THEN LiveOf(h) \cup {s.k}
                          ELSE LiveOf(h))
          /\ last' = Call("set", h, s.k, s.v, VNull, o.res)
    /\ setting' = [setting EXCEPT ![h] = NoSet]
    /\ UNCHANGED <<autocommit, table, conn, crsr, fileExists, tables, codec>>

Delitem(h, k) ==
    /\ Apply(h, delitem(h, k))
    /\ Record(h, delitem(h, k), LiveOf(h) \ {k})
    /\ last' = Call("del", h, k, VNull, VNull, delitem(h, k).res)
    /\ UNCHANGED <<autocommit, table, conn, crsr, fileExists, tables, codec,
                   setting>>

Clear(h) ==
    /\ Apply(h, clear(h))
    /\ Record(h, clear(h), {})
    /\ last' = Call("clear", h, "", VNull, VNull, clear(h).res)
    /\ UNCHANGED <<autocommit, table, conn, crsr, fileExists, tables, codec,
                   setting>>

\* ------------------------------------------------------------------ codec

RECURSIVE SeqsUpTo(_, _)
\* The sequences over S of length at most n.
SeqsUpTo(S, n) ==
    IF n = 0 THEN {<<>>}
    ELSE LET shorter == SeqsUpTo(S, n - 1) IN
         shorter \cup {Append(q, x) : q \in shorter, x \in S}

\* The values the codec is run on: every text up to MaxStrLen, the integers
\* from -1 to MaxInt, the booleans, None, lists and dicts of these and lists
\* and dicts inside lists and dicts.
Texts == SeqsUpTo(StrChars, MaxStrLen)
Scalars ==
    {VNull, VBool(TRUE), VBool(FALSE)}
    \cup {VNum(i) : i \in (0 - 1)..MaxInt}
    \cup {VStr(s) : s \in Texts}
Elements ==
    {VNull, VBool(TRUE), VNum(0 - 1), VNum(0), VNum(MaxInt)}
    \cup {VStr(s) : s \in SeqsUpTo(StrChars, 1)}
Lists == {VList(q) : q \in SeqsUpTo(Elements, 2)}
Dicts ==
    {VDict(<<>>, <<>>)}
    \cup {VDict(<<k>>, <<x>>) : k \in SeqsUpTo(StrChars, 1), x \in Elements}
    \cup {VDict(<<<<"a">>, <<"n">>>>, <<x, y>>) : x \in Elements, y \in Elements}
Nested ==
    {VList(<<x>>) : x \in Lists \cup Dicts}
    \cup {VDict(<<<<"a">>>>, <<x>>) : x \in Lists \cup Dicts}
CodecValues == Scalars \cup Lists \cup Dicts \cup Nested

InitCodec ==
    /\ autocommit = [h \in Handles |-> FALSE]
    /\ table = [h \in Handles |-> "store"]
    /\ Constructed
    /\ \E v \in CodecValues :
         codec = [pc |-> "value", val |-> v, text |-> <<>>,
                  out |-> [ok |-> FALSE, val |-> VNull]]

Store == UNCHANGED <<autocommit, table, conn, crsr, fileExists, tables, rows,
                     writer, pending, liveC, liveP, last, setting>>

\* The text the store writes for the value (__setitem__ binds jsonize(val)).
Encode ==
    /\ codec.pc = "value"
    /\ codec' = [codec EXCEPT !.pc = "text", !.text = jsonize(codec.val)]
    /\ Store

\* The value the store reads back from the text (__getitem__: json.loads(f)).
Decode ==
    /\ codec.pc = "text"
    /\ codec' = [codec EXCEPT !.pc = "out", !.out = json_loads(codec.text)]
    /\ Store

NextCodec == Encode \/ Decode

\* ---------------------------------------------------------- specification

\* Any call on a store object of H, values drawn from V.
Calls(H, V) ==
    \/ \E h \in H : Enter(h)
    \/ \E h \in H, exc \in BOOLEAN : Exit(h, exc)
    \/ \E h \in H : Commit(h)
    \/ \E h \in H, k \in Keys : Getitem(h, k)
    \/ \E h \in H, k \in Keys, x \in Defaults : Get(h, k, x)
    \/ \E h \in H, k \in Keys : Contains(h, k)
    \/ \E h \in H : Length(h)
    \/ \E h \in H, plan \in ScanPlans : ListKeys(h, plan)
    \/ \E h \in H : ListValues(h)
    \/ \E h \in H : ListItems(h)
    \/ \E h \in H, k \in Keys, v \in V : Setitem(h, k, v)
    \/ \E h \in H, k \in Keys : Delitem(h, k)
    \/ \E h \in H : Clear(h)

Next == Calls(Handles, Values)
NextOne == Calls({"h1"}, OneValues)
NextObject == Calls({"h1"}, ObjectValues)

\* Two threads, each with a store object of its own: a __setitem__ is two
\* steps, and the calls of the other store object may fall between them.
Idle(h) == setting[h] = NoSet
NextRace ==
    \/ \E h \in Handles : Idle(h) /\ Enter(h)
    \/ \E h \in Handles, k \in Keys, v \in Values : SetCheck(h, k, v)
    \/ \E h \in Handles : SetWrite(h)
    \/ \E h \in Handles, k \in Keys : Idle(h) /\ Delitem(h, k)
    \/ \E h \in Handles, k \in Keys : Idle(h) /\ Getitem(h, k)

\* Two store objects on one file.
Spec == Init /\ [][Next]_vars
\* One store object alone.
SpecOne == InitOne /\ [][NextOne]_vars
\* One store object alone, given objects json cannot encode by itself.
SpecObject == InitOne /\ [][NextObject]_vars
\* Two autocommit store objects on one table, their calls interleaved.
SpecRace == InitRace /\ [][NextRace]_vars
\* The codec alone: a value, the text written for it, the value read back.
SpecCodec == InitCodec /\ [][NextCodec]_vars

\* ----------------------------------------------------------------- claims

\* Open: a statement on the store object's cursor reaches its table.
Open(h) == CursorErr(h) = "ok"

WriteOps == {"set", "del", "clear"}
CommitOps == {"exit", "exit_exc", "commit"}

\* C1: on an Open store, set(k, v) ends well and a get(k) that follows on the
\* same store object returns a value equal to v, whether k had a row or not.
C1_SetThenGet ==
    (last.op = "set" /\ Open(last.h)) =>
        /\ last.res = "ok"
        /\ getitem(last.h, last.k).res = "ok"
        /\ PyEq(getitem(last.h, last.k).val, last.v)

\* C2: decoding the text the store writes for a value yields a value equal to
\* it, for every value of the codec, texts of the string fast path included.
C2_RoundTrip ==
    codec.pc = "out" => (codec.out.ok /\ PyEq(codec.out.val, codec.val))

\* C3: with autocommit off, a set, delete or clear that ended well is seen by
\* the reads of the same store object and leaves what every other store
\* object reads unchanged; what a store object reads changes only by its own
\* call, by a commit (commit or scope exit), or by an autocommit store's call.
C3_Isolation ==
    /\ [](\A h \in Handles :
           (last.h = h /\ last.op \in WriteOps /\ last.res = "ok"
            /\ ~autocommit[h])
           => /\ last.op = "set" =>
                   /\ getitem(h, last.k).res = "ok"
                   /\ PyEq(getitem(h, last.k).val, last.v)
              /\ last.op = "del" =>
                   contains(h, last.k) = [res |-> "ok", val |-> VBool(FALSE)]
              /\ last.op = "clear" => len(h) = [res |-> "ok", val |-> VNum(0)])
    /\ [][\A h \in Handles :
            /\ (/\ last'.h = h /\ last'.op \in WriteOps /\ last'.res = "ok"
                /\ ~autocommit[h])
               => /\ rows' = rows
                  /\ \A g \in Handles \ {h} : ReadRows(g)' = ReadRows(g)
            /\ (ReadRows(h)' # ReadRows(h))
               => \/ last'.h = h
                  \/ last'.op \in CommitOps
                  \/ autocommit[last'.h]
         ]_vars

C3_Witness ==
    /\ last.op = "set" /\ last.res = "ok" /\ writer = last.h
    /\ getitem(last.h, last.k).res = "ok"
    /\ \E g \in Handles \ {last.h} :
         Open(g) /\ getitem(g, last.k).res = "KeyError"

\* C4: with autocommit off, after a scope exit that ended well the committed
\* rows are the rows the store object held, its transaction is over, and
\* every store object without uncommitted writes of its own reads them, one
\* not yet opened included.
C4_Durable ==
    [][\A h \in Handles :
         (last'.h = h /\ last'.op = "exit" /\ last'.res = "ok" /\ ~autocommit[h])
         => /\ writer' # h
            /\ rows'[table[h]] = ReadRows(h)
            /\ \A g \in Handles : writer' # g /\ table[g] = table[h]
                                  => ReadRows(g)' = ReadRows(h)
      ]_vars

C4_Witness ==
    /\ last.op = "exit" /\ last.res = "ok" /\ last.pend
    /\ rows[table[last.h]] # <<>>
    /\ \E g \in Handles : conn[g] = "None" /\ table[g] = table[last.h]

\* C5: on an Open store delete(k) raises no error; afterwards contains(k) is
\* false and the row of every other key is the row it was; when k has no row
\* nothing the store object or any other reads has changed.
C5_Delete ==
    [][\A h \in Handles, k \in Keys :
         (last'.h = h /\ last'.op = "del" /\ last'.k = k /\ Open(h))
         => /\ last'.res = "ok"
            /\ contains(h, k)' = [res |-> "ok", val |-> VBool(FALSE)]
            /\ \A k2 \in Keys \ {k} :
                 /\ HasKey(ReadRows(h)', k2) = HasKey(ReadRows(h), k2)
                 /\ HasKey(ReadRows(h), k2)
                    => FirstOf(ReadRows(h)', k2) = FirstOf(ReadRows(h), k2)
            /\ ~HasKey(ReadRows(h), k)
               => /\ ReadRows(h)' = ReadRows(h)
                  /\ rows' = rows
      ]_vars

C5_Witness ==
    /\ last.op = "del" /\ last.res = "ok" /\ last.hit
    /\ \E k2 \in Keys \ {last.k} : HasKey(ReadRows(last.h), k2)

\* C6: in every state no table and no transaction holds two rows of one key,
\* and length() on an Open store is the number of keys set and not since
\* deleted or cleared.
C6_Unique ==
    /\ \A t \in Tables, k \in Keys : CountKey(rows[t], k) <= 1
    /\ \A k \in Keys : CountKey(pending, k) <= 1
    /\ \A h \in Handles :
         Open(h) => len(h) = [res |-> "ok", val |-> VNum(Cardinality(LiveOf(h)))]

C6_Witness ==
    /\ last.op = "set" /\ last.res = "ok" /\ last.hit
    /\ ~last.pend /\ writer = last.h
    /\ len(last.h).val = VNum(2)

\* C7: after __enter__ returns the configured table is in the file and the
\* first mapping operation ends well.
C7_TableExists ==
    last.op = "enter" => (table[last.h] \in tables /\ len(last.h).res = "ok")

\* C8: after __enter__ returns the store is Open, also when the store object
\* has been opened and closed before.
C8_Reopen ==
    last.op = "enter" =>
        /\ conn[last.h] = "open" /\ crsr[last.h] = "open"
        /\ \A k \in Keys : contains(last.h, k).res = "ok"

\* C9: with autocommit off, a scope exit reached by an exception of the
\* block commits all the same: the committed rows are the rows the store
\* object held, every store object without uncommitted writes of its own
\* reads them, and the exception is raised again.
C9_ExitOnError ==
    [][\A h \in Handles :
         (/\ last'.h = h /\ last'.op = "exit_exc" /\ conn[h] = "open"
          /\ ~autocommit[h])
         => /\ last'.res = "reraised"
            /\ writer' # h
            /\ rows'[table[h]] = ReadRows(h)
            /\ \A g \in Handles : writer' # g /\ table[g] = table[h]
                                  => ReadRows(g)' = ReadRows(h)
      ]_vars

C9_Witness ==
    /\ last.op = "exit_exc" /\ last.res = "reraised" /\ last.pend
    /\ rows[table[last.h]] # <<>>
    /\ \E g \in Handles \ {last.h} : Open(g) /\ len(g).val # VNum(0)

\* C10: on an Open store where k has no row, __getitem__(k) raises KeyError
\* and get(k, d) returns d (None when d is left out); neither changes a row,
\* a transaction or a table.
C10_MissingKey ==
    [][\A h \in Handles, k \in Keys :
         (last'.h = h /\ last'.k = k /\ Open(h) /\ ~HasKey(ReadRows(h), k))
         => /\ last'.op = "getitem"
               => /\ last'.res = "KeyError"
                  /\ UNCHANGED <<rows, pending, writer, tables>>
            /\ last'.op = "get"
               => /\ last'.res = "ok"
                  /\ last'.v = last'.d
                  /\ UNCHANGED <<rows, pending, writer, tables>>
      ]_vars

C10_Witness ==
    /\ last.op = "get" /\ last.res = "ok" /\ ~last.hit /\ Open(last.h)
    /\ last.d = VNum(5) /\ last.v = VNum(5)
    /\ ReadRows(last.h) # <<>>

C12_Autocommit ==
    /\ [](\A h \in Handles, g \in Handles :
           (/\ last.h = h /\ last.op \in WriteOps /\ last.res = "ok"
            /\ autocommit[h] /\ Open(g) /\ table[g] = table[h] /\ writer # g)
           => /\ last.op = "set" =>
                   /\ getitem(g, last.k).res = "ok"
                   /\ PyEq(getitem(g, last.k).val, last.v)
              /\ last.op = "del" =>
                   contains(g, last.k) = [res |-> "ok", val |-> VBool(FALSE)]
              /\ last.op = "clear" => len(g) = [res |-> "ok", val |-> VNum(0)])
    /\ [][\A h \in Handles :
            (/\ last'.h = h /\ last'.op \in WriteOps /\ last'.res = "ok"
             /\ autocommit[h])
            => /\ writer' # h
               /\ UNCHANGED <<writer, pending>>
               /\ rows'[table[h]] = ReadRows(h)'
         ]_vars

C12_Witness ==
    /\ last.op = "set" /\ last.res = "ok" /\ ~last.hit /\ autocommit[last.h]
    /\ crsr[last.h] = "open" /\ writer = NoHandle
    /\ \E g \in Handles \ {last.h} :
         /\ ~autocommit[g] /\ Open(g) /\ table[g] = table[last.h]
         /\ getitem(g, last.k).res = "ok"
         /\ PyEq(getitem(g, last.k).val, last.v)

\* C13: on an Open store clear ends well and removes every row and nothing
\* else: length is 0, items is the empty list, the table is still in the
\* file; a set(k, v) that follows on the same store object ends well and
\* get(k) then returns a value equal to v.
C13_Clear ==
    /\ [](\A h \in Handles :
           (last.h = h /\ last.op = "clear" /\ Open(h))
           => /\ last.res = "ok"
              /\ len(h) = [res |-> "ok", val |-> VNum(0)]
              /\ items(h) = [res |-> "ok", val |-> VList(<<>>)]
              /\ table[h] \in tables)
    /\ [][\A h \in Handles, k \in Keys :
            /\ (last'.h = h /\ last'.op = "clear") => tables' = tables
            /\ (/\ last.h = h /\ last.op = "clear" /\ last.res = "ok"
                /\ last'.h = h /\ last'.op = "set" /\ last'.k = k)
               => /\ last'.res = "ok"
                  /\ getitem(h, k)'.res = "ok"
                  /\ PyEq(getitem(h, k)'.val, last'.v)
         ]_vars

\* The keys of rows rs, in their order.
RowKeys(rs) == [i \in 1..Len(rs) |-> rs[i].key]

\* C14: items lists the rows in the order in which their keys were inserted
\* (a key deleted and set again is inserted anew): the pairs items returns
\* are in the order of the rows the store object reads, a set of a key
\* without a row puts it after every key there is, a set of a key with a row
\* leaves every key where it was, and a delete leaves the other keys in
\* their order.
C14_InsertionOrder ==
    /\ [](\A h \in Handles :
           (last.h = h /\ last.op = "items" /\ last.res = "ok")
           => /\ Len(last.v.items) = Len(ReadRows(h))
              /\ \A i \in 1..Len(ReadRows(h)) :
                   last.v.items[i].items[1] = VStr(<<ReadRows(h)[i].key>>))
    /\ [][\A h \in Handles, k \in Keys :
            (last'.h = h /\ last'.k = k /\ last'.res = "ok")
            => /\ last'.op = "set" =>
                    RowKeys(ReadRows(h)') =
                        IF HasKey(ReadRows(h), k) THEN RowKeys(ReadRows(h))
                        ELSE Append(RowKeys(ReadRows(h)), k)
               /\ last'.op = "del" =>
                    RowKeys(ReadRows(h)') =
                        SelectSeq(RowKeys(ReadRows(h)), LAMBDA x : x # k)
         ]_vars

C14_Witness ==
    /\ last.op = "set" /\ last.res = "ok" /\ last.hit
    /\ ~last.pend /\ writer = last.h
    /\ last.k = "b" /\ RowKeys(ReadRows(last.h)) = <<"b", "a">>
    /\ items(last.h).res = "ok"
    /\ items(last.h).val.items[1].items[1] = VStr(<<"b">>)

\* C15: on an Open store the lists keys, values and items return with no
\* write in between agree: each is as long as length says, and the i-th pair
\* of items is the i-th key with the i-th value.
C15_Consistent ==
    \A h \in Handles :
        (last.h = h /\ last.op = "keys" /\ Open(h))
        => /\ last.res = "ok" /\ values(h).res = "ok" /\ items(h).res = "ok"
           /\ len(h).res = "ok"
           /\ Len(last.v.items) = len(h).val.n
           /\ Len(values(h).val.items) = len(h).val.n
           /\ Len(items(h).val.items) = len(h).val.n
           /\ \A i \in 1..Len(last.v.items) :
                items(h).val.items[i] =
                    VList(<<last.v.items[i], values(h).val.items[i]>>)

\* C16: two autocommit store objects both set a key that had no row when
\* each looked; the insert of the later one is not turned into an update: it
\* ends with the unique-constraint error (IntegrityError), raised to the
\* caller, and the table keeps its one row of the key, with the value of the
\* first writer.
C16_LostRace ==
    /\ [](\A k \in Keys : CountKey(rows["store"], k) <= 1)
    /\ [][\A h \in Handles :
            (/\ setting[h].stmt = "insert" /\ setting'[h] = NoSet
             /\ autocommit[h] /\ Open(h)
             /\ HasKey(rows[table[h]], setting[h].k))
            => /\ last'.op = "set" /\ last'.h = h
               /\ last'.res = "IntegrityError"
               /\ rows' = rows
               /\ CountKey(rows'[table[h]], setting[h].k) = 1
         ]_vars

C16_Witness ==
    /\ last.op = "set" /\ last.res = "IntegrityError" /\ last.hit
    /\ autocommit[last.h]
    /\ CountKey(rows[table[last.h]], last.k) = 1
    /\ FirstOf(rows[table[last.h]], last.k).val # jsonize(last.v)

\* C17: on an Open store a set(k, v) of a value equal to the one k holds
\* ends well without a writing statement: the committed rows, the text of k
\* among them, are unchanged, and with autocommit off no transaction is
\* opened and none is changed.
C17_NoWrite ==
    [][\A h \in Handles, k \in Keys :
         (/\ last'.h = h /\ last'.op = "set" /\ last'.k = k /\ Open(h)
          /\ getitem(h, k).res = "ok" /\ PyEq(last'.v, getitem(h, k).val))
         => /\ last'.res = "ok"
            /\ UNCHANGED <<rows, pending, writer>>
      ]_vars

C17_Witness ==
    /\ last.op = "set" /\ last.res = "ok" /\ last.hit /\ Open(last.h)
    /\ ~autocommit[last.h] /\ writer = NoHandle
    /\ last.v = VBool(TRUE)
    /\ FirstOf(rows[table[last.h]], last.k).val = <<"1">>

\* C18: entering a store that is Open changes nothing: the store object
\* keeps its connection and its cursor, no table is made, and its
\* uncommitted writes are neither committed nor dropped.
C18_Reenter ==
    [][\A h \in Handles :
         (last'.op = "enter" /\ last'.h = h /\ Open(h))
         => /\ last'.res = "ok"
            /\ conn[h] = "open" /\ crsr[h] = "open"
            /\ UNCHANGED <<conn, crsr, tables, rows, writer, pending>>
      ]_vars

C18_Witness ==
    /\ last.op = "enter" /\ last.res = "ok" /\ last.pend
    /\ Open(last.h) /\ writer = last.h /\ pending # <<>>
    /\ rows[table[last.h]] # pending

====
